---- MODULE Spec2Model ----
(***************************************************************************)
(* Leasing-agreement creation: the request validator, the business-rule    *)
(* checks, the agreement factory (pricing and payment schedule) and the    *)
(* saga of LeasingAgreementService.executeAgreementTransaction, run        *)
(* against the in-memory collaborators of the test suite.                  *)
(*                                                                         *)
(* Conventions.  A Date is the number of hours since 2000-01-01T00:00 (the *)
(* local zone is taken to be UTC); months are 0-based as in JavaScript.    *)
(* Money inside the service is counted in whole cents; the price of a      *)
(* request is counted in thousandths of a currency unit so that a price    *)
(* with three decimals can be written down.  The characters of an id, which *)
(* the validator inspects one by one, are given by Text.                   *)
(***************************************************************************)
EXTENDS Integers, Sequences, FiniteSets, Bags, TLC

\* ------------------------------------------------------------------------
\* Calendar arithmetic of the JavaScript Date object (years 2000..2099)
\* ------------------------------------------------------------------------

IsLeap(y) == y % 4 = 0

DaysInMonth(y, m) ==
    IF m = 1 THEN (IF IsLeap(y) THEN 29 ELSE 28)
    ELSE IF m \in {3, 5, 8, 10} THEN 30 ELSE 31

RECURSIVE DaysBeforeMonth(_, _)
DaysBeforeMonth(y, m) ==
    IF m = 0 THEN 0 ELSE DaysBeforeMonth(y, m - 1) + DaysInMonth(y, m - 1)

DaysBeforeYear(y) == (y - 2000) * 365 + ((y - 2000) + 3) \div 4

\* new Date(y, m, d, h): month and day overflow are carried, as Date does
MakeDate(y, m, d, h) ==
    LET yy == y + (m \div 12)
        mm == m % 12
    IN (DaysBeforeYear(yy) + DaysBeforeMonth(yy, mm) + (d - 1)) * 24 + h

DayNumber(t) == t \div 24

getHours(t) == t % 24

getFullYear(t) ==
    LET z   == DayNumber(t)
        rem == z % 1461
        yic == IF rem < 366 THEN 0 ELSE 1 + (rem - 366) \div 365
    IN 2000 + 4 * (z \div 1461) + yic

DayOfYear(t) == DayNumber(t) - DaysBeforeYear(getFullYear(t))

getMonth(t) ==
    LET y == getFullYear(t)
    IN CHOOSE m \in 0..11 :
          /\ DaysBeforeMonth(y, m) <= DayOfYear(t)
          /\ DayOfYear(t) < DaysBeforeMonth(y, m) + DaysInMonth(y, m)

getDate(t) == DayOfYear(t) - DaysBeforeMonth(getFullYear(t), getMonth(t)) + 1

setMonth(t, m) == MakeDate(getFullYear(t), m, getDate(t), getHours(t))

setFullYear(t, y) == MakeDate(y, getMonth(t), getDate(t), getHours(t))

setDate(t, d) == MakeDate(getFullYear(t), getMonth(t), d, getHours(t))

\* new Date(now.toDateString()): midnight of the same day
toDateString(t) == DayNumber(t) * 24

\* ------------------------------------------------------------------------
\* Values of a request
\* ------------------------------------------------------------------------

\* a date-like string: an ISO date, an empty or blank string, or other text
IsoString(y, mo, d, h) == [kind |-> "iso", y |-> y, mo |-> mo, d |-> d, h |-> h]

EmptyString == [kind |-> "empty", y |-> 0, mo |-> 0, d |-> 0, h |-> 0]

GarbageString == [kind |-> "garbage", y |-> 0, mo |-> 0, d |-> 0, h |-> 0]

NaN == -1

\* date.toISOString(), for a valid date
toISOString(t) == IsoString(getFullYear(t), getMonth(t) + 1, getDate(t), getHours(t))

\* new Date(dateString).getTime(): NaN for text that is not a date
ParseDate(s) ==
    IF s.kind = "iso" THEN MakeDate(s.y, s.mo - 1, s.d, s.h) ELSE NaN

\* a price as sent: a number of thousandths, or a value that is no number
Number(mills) == [kind |-> "number", mills |-> mills]

NotANumber == [kind |-> "NaN", mills |-> 0]

\* Infinity and -Infinity: typeof is 'number' and isNaN is false
PositiveInfinity == [kind |-> "Infinity", mills |-> 0]

NegativeInfinity == [kind |-> "-Infinity", mills |-> 0]

\* a price that is not of type number, such as '100'
StringPrice == [kind |-> "string", mills |-> 0]

\* the metadata of a request, by what the code looks at: whether it is
\* there, the length of JSON.stringify(metadata), and whether that text
\* contains '<script>' or 'javascript:'
Metadata(length, marked) == [present |-> TRUE, length |-> length, marked |-> marked]

\* no metadata property
NoMetadata == [present |-> FALSE, length |-> 0, marked |-> FALSE]

\* {} serializes to two characters
EmptyObject == Metadata(2, FALSE)

\* the ids that occur in requests, and the characters each consists of
Text ==
    [id \in {"", "emp1", "emp2", "emp3", "comp1", "comp2",
             "item1", "item2", "item3", "itemx", "e1", "item!", "comp!"} |->
        CASE id = ""      -> <<>>
          [] id = "e1"    -> <<"e", "1">>
          [] id = "item!" -> <<"i", "t", "e", "m", "!">>
          [] id = "comp!" -> <<"c", "o", "m", "p", "!">>
          [] id = "emp1"  -> <<"e", "m", "p", "1">>
          [] id = "emp2"  -> <<"e", "m", "p", "2">>
          [] id = "emp3"  -> <<"e", "m", "p", "3">>
          [] id = "comp1" -> <<"c", "o", "m", "p", "1">>
          [] id = "comp2" -> <<"c", "o", "m", "p", "2">>
          [] id = "item1" -> <<"i", "t", "e", "m", "1">>
          [] id = "item2" -> <<"i", "t", "e", "m", "2">>
          [] id = "item3" -> <<"i", "t", "e", "m", "3">>
          [] id = "itemx" -> <<"i", "t", "e", "m", "x">>]

WhiteSpace == {" "}

IdChars ==
    {"a", "b", "c", "d", "e", "i", "m", "o", "p", "t", "x", "w",
     "0", "1", "2", "3", "_", "-"}

RECURSIVE TrimLeft(_)
TrimLeft(s) ==
    IF s # <<>> /\ Head(s) \in WhiteSpace THEN TrimLeft(Tail(s)) ELSE s

RECURSIVE TrimRight(_)
TrimRight(s) ==
    IF s # <<>> /\ s[Len(s)] \in WhiteSpace
    THEN TrimRight(SubSeq(s, 1, Len(s) - 1)) ELSE s

trim(s) == TrimRight(TrimLeft(s))

\* ------------------------------------------------------------------------
\* Errors
\* ------------------------------------------------------------------------

NoError == [name |-> "none", detail |-> "", code |-> ""]

ValidationError(field, code) ==
    [name |-> "ValidationError", detail |-> field, code |-> code]

BusinessRuleError(rule, code) ==
    [name |-> "BusinessRuleError", detail |-> rule, code |-> code]

\* the error a collaborator rejects with: one error object per operation
CollaboratorError(op) == [name |-> "Error", detail |-> op, code |-> "REJECTED"]

\* the first error of a list of check results, NoError when all passed
RECURSIVE FirstError(_)
FirstError(checks) ==
    IF checks = <<>> THEN NoError
    ELSE IF Head(checks) # NoError THEN Head(checks)
    ELSE FirstError(Tail(checks))

\* ------------------------------------------------------------------------
\* Validator (utils/validation.ts)
\* ------------------------------------------------------------------------

ValidatorMaxPriceMills == 1000000000

MinLeaseDays == 30

MaxLeaseYears == 5

MinIdLength == 3

MaxIdLength == 50

supportedCurrencies == {"USD", "EUR", "GBP", "CAD"}

validFrequencies == {"MONTHLY", "QUARTERLY", "ANNUALLY"}

validateRequired(id, fieldName) ==
    IF trim(Text[id]) = <<>> THEN ValidationError(fieldName, "REQUIRED") ELSE NoError

validateAndParseDate(dateString, fieldName) ==
    IF dateString.kind \in {"empty", "blank"}
    THEN ValidationError(fieldName, "REQUIRED")
    ELSE IF ParseDate(dateString) = NaN
    THEN ValidationError(fieldName, "INVALID_FORMAT")
    ELSE NoError

validateDateRange(startDate, endDate, now) ==
    LET maxFutureDate == setFullYear(now, getFullYear(now) + MaxLeaseYears)
        minEndDate    == setDate(startDate, getDate(startDate) + MinLeaseDays)
    IN IF startDate < toDateString(now)
       THEN ValidationError("startDate", "PAST_DATE")
       ELSE IF endDate <= startDate
       THEN ValidationError("endDate", "INVALID_RANGE")
       ELSE IF endDate > maxFutureDate
       THEN ValidationError("endDate", "DURATION_EXCEEDED")
       ELSE IF endDate < minEndDate
       THEN ValidationError("endDate", "DURATION_TOO_SHORT")
       ELSE NoError

validatePrice(price) ==
    IF price.kind \in {"string", "NaN"}
    THEN ValidationError("price", "INVALID_TYPE")
    ELSE IF price.kind = "-Infinity" \/ (price.kind = "number" /\ price.mills <= 0)
    THEN ValidationError("price", "INVALID_VALUE")
    ELSE IF price.kind = "Infinity" \/ price.mills > ValidatorMaxPriceMills
    THEN ValidationError("price", "EXCEEDS_LIMIT")
    ELSE IF price.mills % 10 # 0
    THEN ValidationError("price", "INVALID_PRECISION")
    ELSE NoError

validateCurrency(currency) ==
    IF currency \notin supportedCurrencies
    THEN ValidationError("currency", "UNSUPPORTED_CURRENCY") ELSE NoError

validatePaymentFrequency(frequency) ==
    IF frequency \notin validFrequencies
    THEN ValidationError("paymentFrequency", "INVALID_FREQUENCY") ELSE NoError

validateIdFormat(id, fieldName) ==
    IF Len(Text[id]) < MinIdLength \/ Len(Text[id]) > MaxIdLength
    THEN ValidationError(fieldName, "INVALID_LENGTH")
    ELSE IF \E i \in 1..Len(Text[id]) : Text[id][i] \notin IdChars
    THEN ValidationError(fieldName, "INVALID_FORMAT")
    ELSE NoError

MaxMetadataLength == 10000

\* not called by validateCreateAgreementRequest, nor from anywhere else
validateMetadata(metadata) ==
    IF ~metadata.present THEN NoError
    ELSE IF metadata.length > MaxMetadataLength
    THEN ValidationError("metadata", "SIZE_EXCEEDED")
    ELSE IF metadata.marked
    THEN ValidationError("metadata", "PROHIBITED_CONTENT")
    ELSE NoError

\* the dates are range-checked only when both parsed
validateDates(request, now) ==
    LET s == validateAndParseDate(request.startDate, "startDate")
        e == validateAndParseDate(request.endDate, "endDate")
    IN IF s # NoError THEN s
       ELSE IF e # NoError THEN e
       ELSE validateDateRange(ParseDate(request.startDate),
                              ParseDate(request.endDate), now)

validateCreateAgreementRequest(request, now) ==
    FirstError(<<
        validateRequired(request.employeeId, "employeeId"),
        validateRequired(request.itemId, "itemId"),
        validateRequired(request.companyId, "companyId"),
        validateDates(request, now),
        validatePrice(request.price),
        validateCurrency(request.currency),
        validatePaymentFrequency(request.paymentFrequency),
        validateIdFormat(request.employeeId, "employeeId"),
        validateIdFormat(request.itemId, "itemId"),
        validateIdFormat(request.companyId, "companyId") >>)

\* ------------------------------------------------------------------------
\* Configuration (config/index.ts) and the collaborators' fixed data
\* ------------------------------------------------------------------------

EmployeeTypes == {"STANDARD", "PREMIUM", "VIP"}

\* multipliers are written in hundredths: 0.8 is 80, 1.0 is 100
DefaultConfig ==
    [maxPrice          |-> 1000000,
     employeeDiscounts |-> [t \in EmployeeTypes |->
                              CASE t = "STANDARD" -> 100
                                [] t = "PREMIUM"  -> 90
                                [] t = "VIP"      -> 80],
     longTermDiscount  |-> 80,
     longTermThreshold |-> 12]

\* the service as started with MAX_PRICE=5000 in its environment, so that
\* a price the validator accepts can still exceed the ceiling
ServiceConfig == [DefaultConfig EXCEPT !.maxPrice = 5000]

Emp1 == "emp1"

Emp2 == "emp2"

Emp3 == "emp3"

Comp1 == "comp1"

Comp2 == "comp2"

Item1 == "item1"

Item2 == "item2"

Item3 == "item3"

ItemX == "itemx"

\* MockInventoryService.availableItems
availableItems == {Item1, Item2, Item3}

\* MockEmployeeService.employees
employees ==
    [e \in {Emp1, Emp2, Emp3} |->
        CASE e = Emp1 -> [type |-> "STANDARD", companyId |-> Comp1]
          [] e = Emp2 -> [type |-> "PREMIUM",  companyId |-> Comp1]
          [] e = Emp3 -> [type |-> "VIP",      companyId |-> Comp2]]

getEmployeeType(employeeId) ==
    IF employeeId \in DOMAIN employees
    THEN employees[employeeId].type ELSE "STANDARD"

validateEmployee(employeeId, companyId) ==
    /\ employeeId \in DOMAIN employees
    /\ employees[employeeId].companyId = companyId

\* ------------------------------------------------------------------------
\* Pricing engine and payment-schedule generator
\* ------------------------------------------------------------------------

\* Math.round(x / d) for x >= 0: half a unit is rounded up
RoundDiv_Truncating(x, d) == x \div d

RoundDiv(x, d) == (2 * x + d) \div (2 * d)

\* Math.round(x * m / d), computed without leaving the 32-bit integers:
\* x * m / d = (x \div d) * m + (x % d) * m / d, the first part being whole
MulRoundDiv(x, m, d) == (x \div d) * m + RoundDiv((x % d) * m, d)

\* Math.ceil(a / b) for b > 0
CeilDiv(a, b) == -((-a) \div b)

calculateDurationInMonths(startDate, endDate) ==
    (getFullYear(endDate) - getFullYear(startDate)) * 12
        + (getMonth(endDate) - getMonth(startDate))

getIntervalMonths_AllMonthly(frequency) == 1

getIntervalMonths(frequency) ==
    CASE frequency = "MONTHLY"   -> 1
      [] frequency = "QUARTERLY" -> 3
      [] frequency = "ANNUALLY"  -> 12
      [] OTHER                   -> 1

\* price * longTermMultiplier * employeeMultiplier * 100 is computed in
\* binary floating point.  Where the exact product lies half-way between
\* two cents the computed double can lie just below it, and Math.round then
\* rounds down.  These are the products <<price in cents, longTermMultiplier,
\* employeeMultiplier>> of the prices and multipliers used here for which
\* IEEE-754 double arithmetic does so: 1.15 * 1.0 * 0.9 * 100 is
\* 103.49999999999999 and 2.65 * 1.0 * 0.9 * 100 is 238.49999999999997
\* (0.15 * 1.0 * 0.9 * 100 is 13.5)
ProductsBelowHalf == {<<115, 100, 90>>, <<265, 100, 90>>}

\* the exact product lies half-way between two cents
HalfACent(price, multiplier) == ((price % 10000) * multiplier) % 10000 = 5000

\* price and result in cents
calculateLeasingCost(price, startDate, endDate, employeeType, cfg) ==
    LET durationMonths     == calculateDurationInMonths(startDate, endDate)
        longTermMultiplier == IF durationMonths >= cfg.longTermThreshold
                              THEN cfg.longTermDiscount ELSE 100
        employeeMultiplier ==
            IF employeeType \in DOMAIN cfg.employeeDiscounts
               /\ cfg.employeeDiscounts[employeeType] # 0
            THEN cfg.employeeDiscounts[employeeType] ELSE 100
        multiplier == longTermMultiplier * employeeMultiplier
    IN IF /\ HalfACent(price, multiplier)
          /\ <<price, longTermMultiplier, employeeMultiplier>>
                \in ProductsBelowHalf
       THEN MulRoundDiv(price, multiplier, 10000) - 1
       ELSE MulRoundDiv(price, multiplier, 10000)

\* the loop of generatePaymentSchedule from iteration i on
RECURSIVE ScheduleLoop(_, _, _, _, _, _, _)
ScheduleLoop(id, i, totalPayments, paymentAmount, remainingAmount, currentDate, intervalMonths) ==
    IF i >= totalPayments THEN <<>>
    ELSE LET amount == IF i = totalPayments - 1
                       THEN remainingAmount ELSE paymentAmount
         IN <<[id           |-> <<id, i + 1>>,
               dueDate      |-> currentDate,
               amount       |-> amount,
               status       |-> "PENDING",
               attemptCount |-> 0]>>
            \o ScheduleLoop(id, i + 1, totalPayments, paymentAmount,
                            remainingAmount - amount,
                            setMonth(currentDate,
                                     getMonth(currentDate) + intervalMonths),
                            intervalMonths)

\* with totalPayments = 0 the amount is Infinity and no entry is emitted
generatePaymentSchedule(agreement, frequency) ==
    LET totalAmount    == agreement.price
        intervalMonths == getIntervalMonths(frequency)
        totalPayments  ==
            CeilDiv(calculateDurationInMonths(agreement.startDate,
                                              agreement.endDate),
                    intervalMonths)
        paymentAmount  == IF totalPayments > 0
                          THEN RoundDiv(totalAmount, totalPayments) ELSE 0
    IN ScheduleLoop(agreement.id, 0, totalPayments, paymentAmount,
                    totalAmount, agreement.startDate, intervalMonths)

\* the agreement object built by createAgreementFromRequest
BuildAgreement(id, req, employeeType, cfg) ==
    LET startDate == ParseDate(req.startDate)
        endDate   == ParseDate(req.endDate)
        totalCost == calculateLeasingCost(req.price.mills \div 10, startDate,
                                          endDate, employeeType, cfg)
        tempAgreement ==
            [id              |-> id,
             employeeId      |-> req.employeeId,
             itemId          |-> req.itemId,
             startDate       |-> startDate,
             endDate         |-> endDate,
             status          |-> "DRAFT",
             price           |-> totalCost,
             currency        |-> req.currency,
             companyId       |-> req.companyId,
             paymentSchedule |-> <<>>,
             metadata        |-> IF req.metadata.present
                                 THEN req.metadata ELSE EmptyObject]
    IN [tempAgreement EXCEPT !.paymentSchedule =
            generatePaymentSchedule(tempAgreement, req.paymentFrequency)]

\* ------------------------------------------------------------------------
\* State
\* ------------------------------------------------------------------------

\* number of processLeasingAgreement calls that may be in flight together
NumCalls == 2

Calls == 1..NumCalls

\* the clock of the model: 2025-06-15T10:00
Today == MakeDate(2025, 5, 15, 10)

BaseRequest ==
    [employeeId       |-> Emp1,
     itemId           |-> Item1,
     companyId        |-> Comp1,
     startDate        |-> IsoString(2025, 7, 1, 0),
     endDate          |-> IsoString(2025, 8, 1, 0),
     price            |-> Number(100000),
     currency         |-> "USD",
     paymentFrequency |-> "MONTHLY",
     metadata         |-> NoMetadata]

\* the requests a caller sends: the one-month request of the test suite and its
\* variations (missing employee id, price above the ceiling, item out of
\* stock as well, other company as well)
Requests ==
    {BaseRequest,
     [BaseRequest EXCEPT !.employeeId = ""],
     [BaseRequest EXCEPT !.price = Number(6000000)],
     [BaseRequest EXCEPT !.itemId = ItemX, !.price = Number(6000000)],
     [BaseRequest EXCEPT !.companyId = Comp2, !.itemId = ItemX,
                         !.price = Number(6000000)]}

NoRequest ==
    [employeeId       |-> "",
     itemId           |-> "",
     companyId        |-> "",
     startDate        |-> EmptyString,
     endDate          |-> EmptyString,
     price            |-> NotANumber,
     currency         |-> "",
     paymentFrequency |-> "",
     metadata         |-> NoMetadata]

NoAgreement ==
    [id              |-> 0,
     employeeId      |-> "",
     itemId          |-> "",
     startDate       |-> NaN,
     endDate         |-> NaN,
     status          |-> "NONE",
     price           |-> 0,
     currency        |-> "",
     companyId       |-> "",
     paymentSchedule |-> <<>>,
     metadata        |-> NoMetadata]

NoResult == [kind |-> "none", error |-> NoError, value |-> NoAgreement]

VARIABLES
    now,               \* the system clock
    config,            \* the LeasingConfig the service was constructed with
    pc,                \* per call: the await the call is suspended at
    request,           \* per call: the request passed in
    agreement,         \* per call: the agreement built by the factory
    savedAgreement,    \* per call: the agreement returned by the last save
    operations,        \* per call: the registered compensators (item ids)
    caught,            \* per call: the error caught by the saga's catch
    result,            \* per call: what the call returned or threw
    calls,             \* per call: log of the steps and collaborator calls
    reservedItems,     \* MockInventoryService.reservedItems
    agreements,        \* MockLeasingRepository.agreements
    billingRecords,    \* MockBillingService.billingRecords, as a bag
    sentNotifications, \* MockNotificationService.sentNotifications, as a bag
    args,              \* a function run on its own: its arguments
    heap,              \* a function run on its own: the Date objects alive
    frame,             \* a function run on its own: its local variables
    ret                \* a function run on its own: what it returned

\* the state of a function that is run on its own, outside a call of
\* processLeasingAgreement
unit == <<args, heap, frame, ret>>

vars == <<now, config, pc, request, agreement, savedAgreement, operations,
          caught, result, calls, reservedItems, agreements, billingRecords,
          sentNotifications, unit>>

collaborators == <<reservedItems, agreements, billingRecords, sentNotifications>>

NoArgs == [fn |-> "none"]

NoFrame == [pc |-> "none"]

NoReturn == [kind |-> "none"]

Init ==
    /\ now = Today
    /\ config = ServiceConfig
    /\ pc = [r \in Calls |-> "idle"]
    /\ request = [r \in Calls |-> NoRequest]
    /\ agreement = [r \in Calls |-> NoAgreement]
    /\ savedAgreement = [r \in Calls |-> NoAgreement]
    /\ operations = [r \in Calls |-> <<>>]
    /\ caught = [r \in Calls |-> NoError]
    /\ result = [r \in Calls |-> NoResult]
    /\ calls = [r \in Calls |-> <<>>]
    /\ reservedItems = {}
    /\ agreements = <<>>
    /\ billingRecords = EmptyBag
    /\ sentNotifications = EmptyBag
    /\ args = NoArgs
    /\ heap = <<>>
    /\ frame = NoFrame
    /\ ret = NoReturn

\* ------------------------------------------------------------------------
\* Helpers of the actions
\* ------------------------------------------------------------------------

\* one entry of the log: a step of the call or a collaborator operation,
\* whether it resolved, and the boolean it resolved to (TRUE for void)
Entry(op, item, status, resolved, value) ==
    [op |-> op, item |-> item, status |-> status,
     resolved |-> resolved, value |-> value]

Log(r, entry) == calls' = [calls EXCEPT ![r] = Append(@, entry)]

\* Array.prototype.push on an array the service never reads back: the
\* array is kept as the bag of its elements
Push(array, element) == array (+) SetToBag({element})

\* MockInventoryService.checkAvailability
checkAvailability(itemId) ==
    itemId \in availableItems /\ itemId \notin reservedItems

\* MockInventoryService.reserveItem: the value it resolves to
reserveItemResult(itemId) ==
    itemId \in availableItems /\ itemId \notin reservedItems

\* Array.prototype.reverse
RECURSIVE Reverse(_)
Reverse(s) == IF s = <<>> THEN <<>> ELSE Append(Reverse(Tail(s)), Head(s))

\* the awaits of processLeasingAgreement and executeAgreementTransaction in
\* the order of the statements that issue them
SagaOrder ==
    <<"validateEmployee", "checkAvailability", "priceLimit",
      "createAgreement", "reserveItem", "savePending",
      "createBillingRecord", "sendAgreementCreated", "saveActive">>

StepAfter(order, step) ==
    order[(CHOOSE i \in 1..Len(order) : order[i] = step) + 1]

NextStep_BillsFirst(step) ==
    StepAfter(<<"validateEmployee", "checkAvailability", "priceLimit",
                "createAgreement", "reserveItem", "createBillingRecord",
                "savePending", "sendAgreementCreated", "saveActive">>, step)

\* the await the call suspends at when the one at `step` has resolved
NextStep(step) == StepAfter(SagaOrder, step)

RegisterCompensator_Missing(ops, itemId) == ops

\* operations.push(() => this.inventoryService.releaseItem(agreement.itemId))
RegisterCompensator(ops, itemId) == Append(ops, itemId)

PendingCopy_KeepsStatus(a) == a

\* { ...agreement, status: 'PENDING' }
PendingCopy(a) == [a EXCEPT !.status = "PENDING"]

\* { ...savedAgreement, status: 'ACTIVE', updatedAt: new Date() }
ActiveCopy(a) == [a EXCEPT !.status = "ACTIVE"]

RethrownError_LastFailure(caughtError, rollbackError) ==
    IF rollbackError # NoError THEN rollbackError ELSE caughtError

\* `throw error` after the rollback loop: the error the catch clause bound;
\* rollbackError is the loop's own catch variable, out of scope here
RethrownError(caughtError, rollbackError) == caughtError

Throw_Wrapped(r, error) ==
    /\ result' = [result EXCEPT ![r] =
                     [kind |-> "thrown",
                      error |-> CollaboratorError("processLeasingAgreement"),
                      value |-> NoAgreement]]
    /\ pc' = [pc EXCEPT ![r] = "done"]

\* processLeasingAgreement's catch: log and rethrow; the call is over
Throw(r, error) ==
    /\ result' = [result EXCEPT ![r] =
                     [kind |-> "thrown", error |-> error, value |-> NoAgreement]]
    /\ pc' = [pc EXCEPT ![r] = "done"]

\* a step outside the saga threw: nothing is compensated
ThrowBeforeSaga(r, error) ==
    /\ Throw(r, error)
    /\ UNCHANGED <<operations, caught>>

\* the catch of executeAgreementTransaction is entered with `error`: the
\* compensators are reversed and the first one is called; with none
\* registered the error is rethrown at once
EnterCatch(r, error) ==
    /\ caught' = [caught EXCEPT ![r] = error]
    /\ operations' = [operations EXCEPT ![r] = Reverse(@)]
    /\ IF operations[r] = <<>>
       THEN Throw(r, RethrownError(error, NoError))
       ELSE /\ pc' = [pc EXCEPT ![r] = "rollback"]
            /\ UNCHANGED result

\* ------------------------------------------------------------------------
\* processLeasingAgreement, one action per await
\* ------------------------------------------------------------------------

Call_ValidationNotAwaited(r, q) ==
    /\ pc[r] = "idle"
    /\ request' = [request EXCEPT ![r] = q]
    /\ LET error == validateCreateAgreementRequest(q, now)
       IN /\ Log(r, Entry("validateCreateAgreementRequest", "", "",
                          error = NoError, TRUE))
          /\ pc' = [pc EXCEPT ![r] = Head(SagaOrder)]
          /\ UNCHANGED <<result, operations, caught>>
    /\ UNCHANGED <<unit, now, config, agreement, savedAgreement, collaborators>>

\* the call is made: the validator runs before the first suspension
Call(r, q) ==
    /\ pc[r] = "idle"
    /\ request' = [request EXCEPT ![r] = q]
    /\ LET error == validateCreateAgreementRequest(q, now)
       IN /\ Log(r, Entry("validateCreateAgreementRequest", "", "",
                          error = NoError, TRUE))
          /\ IF error # NoError
             THEN ThrowBeforeSaga(r, error)
             ELSE /\ pc' = [pc EXCEPT ![r] = Head(SagaOrder)]
                  /\ UNCHANGED <<result, operations, caught>>
    /\ UNCHANGED <<unit, now, config, agreement, savedAgreement, collaborators>>

ValidateEmployee_ResultIgnored(r, resolves) ==
    /\ pc[r] = "validateEmployee"
    /\ LET isValidEmployee ==
               validateEmployee(request[r].employeeId, request[r].companyId)
       IN /\ Log(r, Entry("validateEmployee", "", "", resolves,
                          resolves => isValidEmployee))
          /\ IF ~resolves
             THEN ThrowBeforeSaga(r, CollaboratorError("validateEmployee"))
             ELSE /\ pc' = [pc EXCEPT ![r] = NextStep(pc[r])]
                  /\ UNCHANGED <<result, operations, caught>>
    /\ UNCHANGED <<unit, now, config, request, agreement, savedAgreement,
                   collaborators>>

\* validateBusinessRules: employeeService.validateEmployee
ValidateEmployee(r, resolves) ==
    /\ pc[r] = "validateEmployee"
    /\ LET isValidEmployee ==
               validateEmployee(request[r].employeeId, request[r].companyId)
       IN /\ Log(r, Entry("validateEmployee", "", "", resolves,
                          resolves => isValidEmployee))
          /\ IF ~resolves
             THEN ThrowBeforeSaga(r, CollaboratorError("validateEmployee"))
             ELSE IF ~isValidEmployee
             THEN ThrowBeforeSaga(r, BusinessRuleError("EMPLOYEE_VALIDATION",
                                                      "INVALID_EMPLOYEE"))
             ELSE /\ pc' = [pc EXCEPT ![r] = NextStep(pc[r])]
                  /\ UNCHANGED <<result, operations, caught>>
    /\ UNCHANGED <<unit, now, config, request, agreement, savedAgreement,
                   collaborators>>

\* validateBusinessRules: inventoryService.checkAvailability
CheckAvailability(r, resolves) ==
    /\ pc[r] = "checkAvailability"
    /\ LET isItemAvailable == checkAvailability(request[r].itemId)
       IN /\ Log(r, Entry("checkAvailability", request[r].itemId, "",
                          resolves, resolves => isItemAvailable))
          /\ IF ~resolves
             THEN ThrowBeforeSaga(r, CollaboratorError("checkAvailability"))
             ELSE IF ~isItemAvailable
             THEN ThrowBeforeSaga(r, BusinessRuleError("ITEM_AVAILABILITY",
                                                      "ITEM_UNAVAILABLE"))
             ELSE /\ pc' = [pc EXCEPT ![r] = NextStep(pc[r])]
                  /\ UNCHANGED <<result, operations, caught>>
    /\ UNCHANGED <<unit, now, config, request, agreement, savedAgreement,
                   collaborators>>

\* validateBusinessRules: the price ceiling of the configuration
CheckPriceLimit(r) ==
    /\ pc[r] = "priceLimit"
    /\ LET exceeded == request[r].price.mills > config.maxPrice * 1000
       IN /\ Log(r, Entry("priceLimit", "", "", ~exceeded, TRUE))
          /\ IF exceeded
             THEN ThrowBeforeSaga(r, BusinessRuleError("PRICE_LIMIT",
                                                      "PRICE_EXCEEDED"))
             ELSE /\ pc' = [pc EXCEPT ![r] = NextStep(pc[r])]
                  /\ UNCHANGED <<result, operations, caught>>
    /\ UNCHANGED <<unit, now, config, request, agreement, savedAgreement,
                   collaborators>>

\* createAgreementFromRequest: employeeService.getEmployeeType, then the
\* pricing engine and the schedule generator; the id is fresh for the call
CreateAgreementFromRequest(r, resolves) ==
    /\ pc[r] = "createAgreement"
    /\ IF ~resolves
       THEN /\ Log(r, Entry("getEmployeeType", "", "", FALSE, FALSE))
            /\ ThrowBeforeSaga(r, CollaboratorError("getEmployeeType"))
            /\ UNCHANGED agreement
       ELSE /\ calls' = [calls EXCEPT ![r] = @ \o
                  <<Entry("getEmployeeType", "", "", TRUE, TRUE),
                    Entry("createAgreementFromRequest", "", "DRAFT",
                          TRUE, TRUE)>>]
            /\ agreement' = [agreement EXCEPT ![r] =
                  BuildAgreement(r, request[r],
                                 getEmployeeType(request[r].employeeId),
                                 config)]
            /\ pc' = [pc EXCEPT ![r] = NextStep(pc[r])]
            /\ UNCHANGED <<result, operations, caught>>
    /\ UNCHANGED <<unit, now, config, request, savedAgreement, collaborators>>

\* ------------------------------------------------------------------------
\* executeAgreementTransaction
\* ------------------------------------------------------------------------

ReserveItem_SharedOperations(r, resolves) ==
    /\ pc[r] = "reserveItem"
    /\ LET itemId   == agreement[r].itemId
           reserved == reserveItemResult(itemId)
       IN /\ Log(r, Entry("reserveItem", itemId, "", resolves,
                          resolves => reserved))
          /\ IF resolves
             THEN /\ reservedItems' = IF reserved
                                      THEN reservedItems \cup {itemId}
                                      ELSE reservedItems
                  /\ operations' = [s \in Calls |->
                                       RegisterCompensator(operations[s], itemId)]
                  /\ pc' = [pc EXCEPT ![r] = NextStep(pc[r])]
                  /\ UNCHANGED <<result, caught>>
             ELSE /\ EnterCatch(r, CollaboratorError("reserveItem"))
                  /\ UNCHANGED reservedItems
    /\ UNCHANGED <<unit, now, config, request, agreement, savedAgreement,
                   agreements, billingRecords, sentNotifications>>

\* Step 1: inventoryService.reserveItem, then register the compensator
ReserveItem(r, resolves) ==
    /\ pc[r] = "reserveItem"
    /\ LET itemId   == agreement[r].itemId
           reserved == reserveItemResult(itemId)
       IN /\ Log(r, Entry("reserveItem", itemId, "", resolves,
                          resolves => reserved))
          /\ IF resolves
             THEN /\ reservedItems' = IF reserved
                                      THEN reservedItems \cup {itemId}
                                      ELSE reservedItems
                  /\ operations' = [operations EXCEPT ![r] =
                                       RegisterCompensator(@, itemId)]
                  /\ pc' = [pc EXCEPT ![r] = NextStep(pc[r])]
                  /\ UNCHANGED <<result, caught>>
             ELSE /\ EnterCatch(r, CollaboratorError("reserveItem"))
                  /\ UNCHANGED reservedItems
    /\ UNCHANGED <<unit, now, config, request, agreement, savedAgreement,
                   agreements, billingRecords, sentNotifications>>

\* MockLeasingRepository.save
save(a) == (a.id :> a) @@ agreements

\* Step 2: repository.save with status PENDING
SavePending(r, resolves) ==
    /\ pc[r] = "savePending"
    /\ LET pending == PendingCopy(agreement[r])
       IN /\ Log(r, Entry("save", "", pending.status, resolves, TRUE))
          /\ IF resolves
             THEN /\ agreements' = save(pending)
                  /\ savedAgreement' = [savedAgreement EXCEPT ![r] = pending]
                  /\ pc' = [pc EXCEPT ![r] = NextStep(pc[r])]
                  /\ UNCHANGED <<result, operations, caught>>
             ELSE /\ EnterCatch(r, CollaboratorError("save PENDING"))
                  /\ UNCHANGED <<agreements, savedAgreement>>
    /\ UNCHANGED <<unit, now, config, request, agreement, reservedItems,
                   billingRecords, sentNotifications>>

\* Step 3: billingService.createBillingRecord
CreateBillingRecord(r, resolves) ==
    /\ pc[r] = "createBillingRecord"
    /\ Log(r, Entry("createBillingRecord", "", savedAgreement[r].status,
                    resolves, TRUE))
    /\ IF resolves
       THEN /\ billingRecords' = Push(billingRecords,
                  [agreementId |-> savedAgreement[r].id,
                   billingId   |-> <<"bill", savedAgreement[r].id>>])
            /\ pc' = [pc EXCEPT ![r] = NextStep(pc[r])]
            /\ UNCHANGED <<result, operations, caught>>
       ELSE /\ EnterCatch(r, CollaboratorError("createBillingRecord"))
            /\ UNCHANGED billingRecords
    /\ UNCHANGED <<unit, now, config, request, agreement, savedAgreement,
                   reservedItems, agreements, sentNotifications>>

SendAgreementCreated_Fatal(r, resolves) ==
    /\ pc[r] = "sendAgreementCreated"
    /\ Log(r, Entry("sendAgreementCreated", "", savedAgreement[r].status,
                    resolves, TRUE))
    /\ IF resolves
       THEN /\ sentNotifications' =
                  Push(sentNotifications,
                       [employeeId  |-> savedAgreement[r].employeeId,
                        agreementId |-> savedAgreement[r].id])
            /\ pc' = [pc EXCEPT ![r] = NextStep(pc[r])]
            /\ UNCHANGED <<result, operations, caught>>
       ELSE /\ EnterCatch(r, CollaboratorError("sendAgreementCreated"))
            /\ UNCHANGED sentNotifications
    /\ UNCHANGED <<unit, now, config, request, agreement, savedAgreement,
                   reservedItems, agreements, billingRecords>>

\* Step 4: notificationService.sendAgreementCreated; a rejection is logged
\* by the inner catch and the saga goes on
SendAgreementCreated(r, resolves) ==
    /\ pc[r] = "sendAgreementCreated"
    /\ Log(r, Entry("sendAgreementCreated", "", savedAgreement[r].status,
                    resolves, TRUE))
    /\ sentNotifications' =
          IF resolves
          THEN Push(sentNotifications,
                    [employeeId  |-> savedAgreement[r].employeeId,
                     agreementId |-> savedAgreement[r].id])
          ELSE sentNotifications
    /\ pc' = [pc EXCEPT ![r] = NextStep(pc[r])]
    /\ UNCHANGED <<unit, now, config, request, agreement, savedAgreement,
                   operations, caught, result, reservedItems, agreements,
                   billingRecords>>

\* repository.save with status ACTIVE, then return the final agreement
SaveActive(r, resolves) ==
    /\ pc[r] = "saveActive"
    /\ LET active == ActiveCopy(savedAgreement[r])
       IN /\ Log(r, Entry("save", "", active.status, resolves, TRUE))
          /\ IF resolves
             THEN /\ agreements' = save(active)
                  /\ savedAgreement' = [savedAgreement EXCEPT ![r] = active]
                  /\ result' = [result EXCEPT ![r] =
                        [kind |-> "returned", error |-> NoError,
                         value |-> active]]
                  /\ pc' = [pc EXCEPT ![r] = "done"]
                  /\ UNCHANGED <<operations, caught>>
             ELSE /\ EnterCatch(r, CollaboratorError("save ACTIVE"))
                  /\ UNCHANGED <<agreements, savedAgreement>>
    /\ UNCHANGED <<unit, now, config, request, agreement, reservedItems,
                   billingRecords, sentNotifications>>

Rollback_RetriesRejectedRelease(r, resolves) ==
    /\ pc[r] = "rollback"
    /\ operations[r] # <<>>
    /\ LET itemId == Head(operations[r])
       IN /\ Log(r, Entry("releaseItem", itemId, "", resolves, TRUE))
          /\ reservedItems' = IF resolves
                              THEN reservedItems \ {itemId}
                              ELSE reservedItems
    /\ operations' = [operations EXCEPT ![r] = IF resolves THEN Tail(@) ELSE @]
    /\ IF resolves /\ Tail(operations[r]) = <<>>
       THEN Throw(r, RethrownError(caught[r], NoError))
       ELSE UNCHANGED <<pc, result>>
    /\ UNCHANGED <<unit, now, config, request, agreement, savedAgreement, caught,
                   agreements, billingRecords, sentNotifications>>

\* one iteration of the rollback loop: the compensator at the head of the
\* reversed list (inventoryService.releaseItem) resolves or rejects; a
\* rejection is logged; after the last one the caught error is rethrown
Rollback(r, resolves) ==
    /\ pc[r] = "rollback"
    /\ operations[r] # <<>>
    /\ LET itemId == Head(operations[r])
       IN /\ Log(r, Entry("releaseItem", itemId, "", resolves, TRUE))
          /\ reservedItems' = IF resolves
                              THEN reservedItems \ {itemId}
                              ELSE reservedItems
    /\ operations' = [operations EXCEPT ![r] = Tail(@)]
    /\ IF Tail(operations[r]) = <<>>
       THEN Throw(r, RethrownError(caught[r],
                        IF resolves THEN NoError
                        ELSE CollaboratorError("releaseItem")))
       ELSE UNCHANGED <<pc, result>>
    /\ UNCHANGED <<unit, now, config, request, agreement, savedAgreement, caught,
                   agreements, billingRecords, sentNotifications>>

Next ==
    \/ \E r \in Calls, q \in Requests : Call(r, q)
    \/ \E r \in Calls, resolves \in BOOLEAN : ValidateEmployee(r, resolves)
    \/ \E r \in Calls, resolves \in BOOLEAN : CheckAvailability(r, resolves)
    \/ \E r \in Calls : CheckPriceLimit(r)
    \/ \E r \in Calls, resolves \in BOOLEAN :
          CreateAgreementFromRequest(r, resolves)
    \/ \E r \in Calls, resolves \in BOOLEAN : ReserveItem(r, resolves)
    \/ \E r \in Calls, resolves \in BOOLEAN : SavePending(r, resolves)
    \/ \E r \in Calls, resolves \in BOOLEAN : CreateBillingRecord(r, resolves)
    \/ \E r \in Calls, resolves \in BOOLEAN : SendAgreementCreated(r, resolves)
    \/ \E r \in Calls, resolves \in BOOLEAN : SaveActive(r, resolves)
    \/ \E r \in Calls, resolves \in BOOLEAN : Rollback(r, resolves)

Spec == Init /\ [][Next]_vars

\* ------------------------------------------------------------------------
\* Vocabulary of the properties
\* ------------------------------------------------------------------------

\* the saga steps whose rejection aborts the call
IsFatalStep(e) == e.op \in {"reserveItem", "save", "createBillingRecord"}

\* the fatal steps that come after the reservation
IsLaterFatalStep(e) == e.op \in {"save", "createBillingRecord"}

Indices(log, op) == {i \in DOMAIN log : log[i].op = op}

ReserveResolved(log) ==
    \E i \in Indices(log, "reserveItem") : log[i].resolved

LaterFatalRejected(log) ==
    \E i \in DOMAIN log : IsLaterFatalStep(log[i]) /\ ~log[i].resolved

FatalRejected(log) ==
    \E i \in DOMAIN log : IsFatalStep(log[i]) /\ ~log[i].resolved

ReleaseResolved(log) ==
    \E i \in Indices(log, "releaseItem") : log[i].resolved

Thrown(r) == pc[r] = "done" /\ result[r].kind = "thrown"

Returned(r) == pc[r] = "done" /\ result[r].kind = "returned"

\* the step in which call r returns to its caller or throws
Returns(r) == pc[r] # "done" /\ pc'[r] = "done"

\* ------------------------------------------------------------------------
\* C1
\* ------------------------------------------------------------------------

\* what C1 says of a call at the moment it returns: releaseItem was called
\* once, for the agreement's item, if reserveItem resolved and a later
\* fatal step rejected, and was not called otherwise; `freed` is the
\* condition under which the item must then be available
ReleaseContract(r, log, reserved, freed) ==
    /\ Cardinality(Indices(log, "releaseItem")) =
          IF ReserveResolved(log) /\ LaterFatalRejected(log) THEN 1 ELSE 0
    /\ \A i \in Indices(log, "releaseItem") :
          log[i].item = request[r].itemId
    /\ freed => /\ request[r].itemId \in availableItems
                /\ request[r].itemId \notin reserved

ErrorOf(e) ==
    CollaboratorError(IF e.op = "save" THEN "save " \o e.status ELSE e.op)

\* C2: when reserveItem, the PENDING save, createBillingRecord or the ACTIVE
\* save rejects with an error, the call throws that very error and makes no
\* collaborator call of a later step (only compensation follows).
C2_OriginalErrorRethrown ==
    \A r \in Calls : \A i \in DOMAIN calls[r] :
       (IsFatalStep(calls[r][i]) /\ ~calls[r][i].resolved) =>
          /\ \A j \in DOMAIN calls[r] :
                j > i => calls[r][j].op = "releaseItem"
          /\ pc[r] \in {"rollback", "done"}
          /\ pc[r] = "done" =>
                /\ result[r].kind = "thrown"
                /\ result[r].error = ErrorOf(calls[r][i])

\* a call whose ACTIVE save rejected and that threw the save's error
C2_Witness ==
    \E r \in Calls :
       /\ Thrown(r)
       /\ result[r].error = CollaboratorError("save ACTIVE")
       /\ \E i \in Indices(calls[r], "save") :
             calls[r][i].status = "ACTIVE" /\ ~calls[r][i].resolved

\* ------------------------------------------------------------------------
\* C3
\* ------------------------------------------------------------------------

\* C3: when a call ends in a failure, no reservation it made is still held,
\* no agreement record it persisted remains in the repository and no
\* billing record it created remains.
C3_AllEffectsUndone ==
    [][\A r \in Calls :
          (Returns(r) /\ result'[r].kind = "thrown") =>
             /\ \A i \in Indices(calls'[r], "reserveItem") :
                   (calls'[r][i].resolved /\ calls'[r][i].value) =>
                      calls'[r][i].item \notin reservedItems'
             /\ r \notin DOMAIN agreements'
             /\ \A b \in BagToSet(billingRecords') : b.agreementId # r]_vars

\* ------------------------------------------------------------------------
\* C4
\* ------------------------------------------------------------------------

Succeeded(log, op, status) ==
    \E i \in Indices(log, op) :
       log[i].status = status /\ log[i].resolved /\ log[i].value

\* C4: a call either throws or returns an ACTIVE agreement for which the
\* reservation, the PENDING save, the billing record and the ACTIVE save all
\* succeeded within that call; it never returns after a fatal step failed.
C4_ReturnsFullyActivated ==
    \A r \in Calls :
       /\ pc[r] = "done" => result[r].kind \in {"thrown", "returned"}
       /\ Returned(r) =>
             /\ result[r].value.status = "ACTIVE"
             /\ Succeeded(calls[r], "reserveItem", "")
             /\ Succeeded(calls[r], "save", "PENDING")
             /\ Succeeded(calls[r], "createBillingRecord", "PENDING")
             /\ Succeeded(calls[r], "save", "ACTIVE")
             /\ ~FatalRejected(calls[r])

\* ------------------------------------------------------------------------
\* C5
\* ------------------------------------------------------------------------

\* C5: a rejected sendAgreementCreated is followed by the ACTIVE save and
\* not by compensation, the agreement is returned ACTIVE once that save
\* resolves, releaseItem is called only after a fatal step rejected, and
\* the notification error is never the error thrown.
C5_NotificationNonFatal ==
    \A r \in Calls :
       /\ result[r].error # CollaboratorError("sendAgreementCreated")
       /\ caught[r] # CollaboratorError("sendAgreementCreated")
       /\ Indices(calls[r], "releaseItem") # {} => FatalRejected(calls[r])
       /\ \A i \in Indices(calls[r], "sendAgreementCreated") :
             ~calls[r][i].resolved =>
                IF i = Len(calls[r])
                THEN pc[r] = "saveActive"
                ELSE /\ calls[r][i + 1].op = "save"
                     /\ calls[r][i + 1].status = "ACTIVE"
                     /\ calls[r][i + 1].resolved =>
                           /\ Returned(r)
                           /\ result[r].value.status = "ACTIVE"
                           /\ r \in DOMAIN agreements
                           /\ agreements[r] = result[r].value

\* a call that returned its agreement although the notification rejected
C5_Witness ==
    \E r \in Calls :
       /\ Returned(r)
       /\ \E i \in Indices(calls[r], "sendAgreementCreated") :
             ~calls[r][i].resolved
       /\ Indices(calls[r], "releaseItem") = {}

\* ------------------------------------------------------------------------
\* C6
\* ------------------------------------------------------------------------

\* C6: when releaseItem rejects during rollback, every registered
\* compensator has still been run when the call ends, and the error thrown
\* is the error of the failed step, not the compensator's.
C6_RollbackFailureDoesNotMask ==
    \A r \in Calls :
       (pc[r] = "done"
          /\ \E i \in Indices(calls[r], "releaseItem") : ~calls[r][i].resolved)
       => /\ result[r].kind = "thrown"
          /\ result[r].error # CollaboratorError("releaseItem")
          /\ result[r].error = caught[r]
          /\ \E i \in DOMAIN calls[r] :
                /\ IsFatalStep(calls[r][i]) /\ ~calls[r][i].resolved
                /\ result[r].error = ErrorOf(calls[r][i])
          /\ operations[r] = <<>>
          /\ Cardinality(Indices(calls[r], "releaseItem")) =
                Cardinality({i \in Indices(calls[r], "reserveItem") :
                                calls[r][i].resolved})

\* a call whose billing failed and whose release then failed as well
C6_Witness ==
    \E r \in Calls :
       /\ Thrown(r)
       /\ result[r].error = CollaboratorError("createBillingRecord")
       /\ \E i \in Indices(calls[r], "releaseItem") : ~calls[r][i].resolved

\* ------------------------------------------------------------------------
\* C7
\* ------------------------------------------------------------------------

\* the position of a logged step in the order C7 states
Rank(e) ==
    CASE e.op = "validateCreateAgreementRequest" -> 1
      [] e.op = "validateEmployee"               -> 2
      [] e.op = "checkAvailability"              -> 3
      [] e.op = "priceLimit"                     -> 4
      [] e.op = "getEmployeeType"                -> 5
      [] e.op = "createAgreementFromRequest"     -> 6
      [] e.op = "reserveItem"                    -> 7
      [] e.op = "save" /\ e.status = "PENDING"   -> 8
      [] e.op = "createBillingRecord"            -> 9
      [] e.op = "sendAgreementCreated"           -> 10
      [] e.op = "save" /\ e.status = "ACTIVE"    -> 11
      [] OTHER                                   -> 0

\* the rank of the step a suspended call is waiting for
RankAwaited(step) ==
    CASE step = "validateEmployee"     -> 2
      [] step = "checkAvailability"    -> 3
      [] step = "priceLimit"           -> 4
      [] step = "createAgreement"      -> 5
      [] step = "reserveItem"          -> 7
      [] step = "savePending"          -> 8
      [] step = "createBillingRecord"  -> 9
      [] step = "sendAgreementCreated" -> 10
      [] step = "saveActive"           -> 11
      [] OTHER                         -> 0

\* C7: the steps of one call happen in the order validation, validateEmployee,
\* checkAvailability, price ceiling, construction, reserveItem, PENDING save,
\* createBillingRecord, sendAgreementCreated, ACTIVE save, none skipped; a
\* step is started only when the one before it has completed, and the one
\* step the call waits for is the successor of the last completed one.
C7_StepsInOrder ==
    \A r \in Calls :
       LET log == calls[r]
       IN /\ log # <<>> => Rank(log[1]) = 1
          /\ \A i \in 1..(Len(log) - 1) :
                IF log[i + 1].op = "releaseItem"
                THEN TRUE
                ELSE /\ log[i].op # "releaseItem"
                     /\ Rank(log[i + 1]) = Rank(log[i]) + 1
                     /\ log[i].resolved \/ log[i].op = "sendAgreementCreated"
          /\ RankAwaited(pc[r]) # 0 =>
                /\ log # <<>>
                /\ RankAwaited(pc[r]) = Rank(log[Len(log)]) + 1
                /\ log[Len(log)].resolved
                      \/ log[Len(log)].op = "sendAgreementCreated"

\* a call that went through all the steps and returned
C7_Witness ==
    \E r \in Calls :
       /\ Returned(r)
       /\ Len(calls[r]) = 11
       /\ Rank(calls[r][11]) = 11

\* ------------------------------------------------------------------------
\* C8
\* ------------------------------------------------------------------------

ValidationFailed(log) == log # <<>> /\ ~log[1].resolved

\* C8: a request that fails input validation makes the call throw a
\* ValidationError at once: the validator is the only step of the call, no
\* collaborator is invoked, no rollback runs, and the step in which the call
\* fails leaves the state of every collaborator as it was.
C8_ValidationFailureTouchesNothing ==
    /\ [](\A r \in Calls :
             ValidationFailed(calls[r]) =>
                /\ Len(calls[r]) = 1
                /\ Thrown(r)
                /\ result[r].error.name = "ValidationError"
                /\ result[r].error =
                      validateCreateAgreementRequest(request[r], now)
                /\ operations[r] = <<>>
                /\ caught[r] = NoError)
    /\ [][\A r \in Calls :
             (calls'[r] # calls[r] /\ ValidationFailed(calls'[r])) =>
                UNCHANGED collaborators]_vars

\* a call rejected by the validator while the other call holds a reservation
C8_Witness ==
    \E r \in Calls :
       /\ Thrown(r)
       /\ result[r].error = ValidationError("employeeId", "REQUIRED")
       /\ reservedItems # {}

\* ------------------------------------------------------------------------
\* C9
\* ------------------------------------------------------------------------

SideEffectOps ==
    {"reserveItem", "save", "createBillingRecord", "sendAgreementCreated",
     "releaseItem"}

PriceExceeded(req) == req.price.mills > config.maxPrice * 1000

\* the business-rule error a validated request must end with, given what
\* the availability check answered for it
FirstBrokenRule(req, isItemAvailable) ==
    IF ~validateEmployee(req.employeeId, req.companyId)
    THEN BusinessRuleError("EMPLOYEE_VALIDATION", "INVALID_EMPLOYEE")
    ELSE IF ~isItemAvailable
    THEN BusinessRuleError("ITEM_AVAILABILITY", "ITEM_UNAVAILABLE")
    ELSE IF PriceExceeded(req)
    THEN BusinessRuleError("PRICE_LIMIT", "PRICE_EXCEEDED")
    ELSE NoError

\* the number of steps a call has made when it stops at a broken rule
StepsUntil(error) ==
    CASE error.code = "INVALID_EMPLOYEE" -> 2
      [] error.code = "ITEM_UNAVAILABLE" -> 3
      [] error.code = "PRICE_EXCEEDED"   -> 4
      [] OTHER                           -> 0

\* C9: a validated request is checked for employee/company match, then item
\* availability, then the price ceiling; the first broken rule ends the
\* call with its BusinessRuleError, and then reserveItem, save,
\* createBillingRecord, sendAgreementCreated and releaseItem are not called.
C9_FirstBrokenRuleAborts ==
    \A r \in Calls :
       LET log == calls[r]
           answered == Len(log) >= 3 /\ log[3].resolved
           broken == FirstBrokenRule(request[r],
                                     IF answered THEN log[3].value ELSE TRUE)
       IN /\ (pc[r] = "done" /\ result[r].error.name = "BusinessRuleError") =>
                /\ result[r].error = broken
                /\ Len(log) = StepsUntil(broken)
                /\ \A i \in DOMAIN log : log[i].op \notin SideEffectOps
          /\ (\E i \in DOMAIN log : log[i].op \in SideEffectOps) =>
                (answered /\ broken = NoError)
          /\ (Len(log) >= 2 /\ log[2].resolved
                /\ broken.code = "INVALID_EMPLOYEE") =>
                (Thrown(r) /\ result[r].error = broken /\ Len(log) = 2)
          /\ (answered /\ broken.code = "ITEM_UNAVAILABLE") =>
                (Thrown(r) /\ result[r].error = broken /\ Len(log) = 3)
          /\ (Len(log) >= 4 /\ broken.code = "PRICE_EXCEEDED") =>
                (Thrown(r) /\ result[r].error = broken /\ Len(log) = 4)

\* one call stopped at the employee rule by a request that breaks all three
\* rules, the other stopped at the price ceiling
C9_Witness ==
    \E r1, r2 \in Calls :
       /\ Thrown(r1)
       /\ result[r1].error.code = "INVALID_EMPLOYEE"
       /\ request[r1].itemId \notin availableItems
       /\ PriceExceeded(request[r1])
       /\ Thrown(r2)
       /\ result[r2].error.code = "PRICE_EXCEEDED"

\* ------------------------------------------------------------------------
\* C10
\* ------------------------------------------------------------------------

\* C10: the factory builds the agreement as DRAFT; the repository is never
\* asked to save a DRAFT; the first save carries PENDING; an ACTIVE save is
\* made only after the PENDING save and then createBillingRecord succeeded;
\* a stored agreement only moves from PENDING to ACTIVE.
C10_StatusLifecycle ==
    /\ [](\A r \in Calls :
             LET log == calls[r]
                 saves == Indices(log, "save")
             IN /\ agreement[r] # NoAgreement => agreement[r].status = "DRAFT"
                /\ \A i \in saves : log[i].status \in {"PENDING", "ACTIVE"}
                /\ \A i \in saves :
                      (\A j \in saves : i <= j) => log[i].status = "PENDING"
                /\ \A i \in saves : log[i].status = "ACTIVE" =>
                      \E j, k \in 1..(i - 1) :
                         /\ j < k
                         /\ log[j].op = "save" /\ log[j].status = "PENDING"
                         /\ log[j].resolved
                         /\ log[k].op = "createBillingRecord"
                         /\ log[k].resolved
                /\ r \in DOMAIN agreements =>
                      agreements[r].status \in {"PENDING", "ACTIVE"})
    /\ [][\A id \in DOMAIN agreements' :
             IF id \in DOMAIN agreements
             THEN \/ agreements'[id].status = agreements[id].status
                  \/ /\ agreements[id].status = "PENDING"
                     /\ agreements'[id].status = "ACTIVE"
             ELSE agreements'[id].status = "PENDING"]_vars

\* an agreement stored as ACTIVE by a call that returned it
C10_Witness ==
    \E r \in Calls :
       /\ Returned(r)
       /\ agreement[r].status = "DRAFT"
       /\ r \in DOMAIN agreements
       /\ agreements[r].status = "ACTIVE"
       /\ Succeeded(calls[r], "createBillingRecord", "PENDING")


\* ------------------------------------------------------------------------
\* generatePaymentSchedule run on its own, statement by statement, with the
\* Date objects it creates kept in a heap: a Date is referred to by its
\* index in heap, and heap[a] is the time value of the object a
\* ------------------------------------------------------------------------

\* the longest lease generated, in calendar months
MaxMonths == 17

\* the agreement prices distributed, in cents
ScheduleAmounts == {5, 10000, 72000, 99999}

ScheduleStartDates == {MakeDate(2025, 6, 1, 0), MakeDate(2025, 7, 31, 9)}

\* for a start date: the end date 30 days later and the first day of each of
\* the following months
ScheduleEndDates(startDate) ==
    {setDate(startDate, getDate(startDate) + MinLeaseDays)}
        \cup {MakeDate(getFullYear(startDate), getMonth(startDate) + k, 1, 0) :
                 k \in 1..MaxMonths}

\* the agreements the Validator lets through on Today
ScheduleArgs ==
    UNION {{[fn        |-> "generatePaymentSchedule",
             id        |-> 1,
             startDate |-> s,
             endDate   |-> e,
             price     |-> p,
             frequency |-> f] :
               e \in {d \in ScheduleEndDates(s) :
                         validateDateRange(s, d, Today) = NoError},
               p \in ScheduleAmounts,
               f \in validFrequencies} : s \in ScheduleStartDates}

\* objects 1 and 2 are agreement.startDate and agreement.endDate
StartDateRef == 1

EndDateRef == 2

\* no call of processLeasingAgreement has been made
NoCallMade ==
    /\ pc = [r \in Calls |-> "idle"]
    /\ request = [r \in Calls |-> NoRequest]
    /\ agreement = [r \in Calls |-> NoAgreement]
    /\ savedAgreement = [r \in Calls |-> NoAgreement]
    /\ operations = [r \in Calls |-> <<>>]
    /\ caught = [r \in Calls |-> NoError]
    /\ result = [r \in Calls |-> NoResult]
    /\ calls = [r \in Calls |-> <<>>]
    /\ reservedItems = {}
    /\ agreements = <<>>
    /\ billingRecords = EmptyBag
    /\ sentNotifications = EmptyBag

ScheduleInit ==
    /\ now = Today
    /\ config = ServiceConfig
    /\ NoCallMade
    /\ args \in ScheduleArgs
    /\ heap = <<args.startDate, args.endDate>>
    /\ frame = [pc |-> "entry"]
    /\ ret = NoReturn

saga == <<now, config, pc, request, agreement, savedAgreement, operations,
          caught, result, calls, collaborators>>

\* new Date(value): a fresh object, the next free index of the heap
NewDate(h, value) == Append(h, value)

\* the object an entry's dueDate refers to when the heap is h before the
\* entry is pushed: the fresh copy new Date(currentDate)
DueDateRef_Shared(h, currentDate) == currentDate

DueDateRef(h, currentDate) == Len(h) + 1

\* lines 128-141: the locals up to let currentDate = new Date(startDate)
ScheduleBegin ==
    /\ frame.pc = "entry"
    /\ LET totalAmount    == args.price
           intervalMonths == getIntervalMonths(args.frequency)
           totalPayments  ==
               CeilDiv(calculateDurationInMonths(heap[StartDateRef],
                                                 heap[EndDateRef]),
                       intervalMonths)
           paymentAmount  == IF totalPayments > 0
                             THEN RoundDiv(totalAmount, totalPayments) ELSE 0
       IN /\ heap' = NewDate(heap, heap[StartDateRef])
          /\ frame' = [pc              |-> "loop",
                       i               |-> 0,
                       schedules       |-> <<>>,
                       intervalMonths  |-> intervalMonths,
                       totalPayments   |-> totalPayments,
                       paymentAmount   |-> paymentAmount,
                       remainingAmount |-> totalAmount,
                       currentDate     |-> Len(heap) + 1]
    /\ UNCHANGED <<saga, args, ret>>

\* lines 143-160: one turn of the for loop
ScheduleIteration ==
    /\ frame.pc = "loop"
    /\ frame.i < frame.totalPayments
    /\ LET amount  == IF frame.i = frame.totalPayments - 1
                      THEN frame.remainingAmount ELSE frame.paymentAmount
           dueDate == DueDateRef(heap, frame.currentDate)
           pushed  == NewDate(heap, heap[frame.currentDate])
           entry   == [id           |-> <<args.id, frame.i + 1>>,
                       dueDate      |-> dueDate,
                       amount       |-> amount,
                       status       |-> "PENDING",
                       attemptCount |-> 0]
       IN /\ heap' = [pushed EXCEPT ![frame.currentDate] =
                         setMonth(@, getMonth(@) + frame.intervalMonths)]
          /\ frame' = [frame EXCEPT
                          !.schedules = Append(@, entry),
                          !.remainingAmount = @ - amount,
                          !.i = @ + 1]
    /\ UNCHANGED <<saga, args, ret>>

\* line 169: return schedules
ScheduleReturn ==
    /\ frame.pc = "loop"
    /\ frame.i >= frame.totalPayments
    /\ frame' = [frame EXCEPT !.pc = "returned"]
    /\ ret' = [kind |-> "schedule", schedules |-> frame.schedules]
    /\ UNCHANGED <<saga, args, heap>>

\* the caller moves the due date of one entry of the returned schedule a
\* month on: schedule[k].dueDate.setMonth(...)
PostponeDueDate(k) ==
    /\ frame.pc = "returned"
    /\ k \in 1..Len(ret.schedules)
    /\ heap' = [heap EXCEPT ![ret.schedules[k].dueDate] =
                   setMonth(@, getMonth(@) + 1)]
    /\ frame' = [frame EXCEPT !.pc = "postponed"]
    /\ UNCHANGED <<saga, args, ret>>

ScheduleNext ==
    \/ ScheduleBegin
    \/ ScheduleIteration
    \/ ScheduleReturn
    \/ \E k \in 1..MaxMonths : PostponeDueDate(k)

ScheduleSpec == ScheduleInit /\ [][ScheduleNext]_vars

\* ------------------------------------------------------------------------
\* Properties of the payment schedule
\* ------------------------------------------------------------------------

ScheduleReturned == ret.kind = "schedule"

RECURSIVE SumOfAmounts(_)
SumOfAmounts(schedules) ==
    IF schedules = <<>> THEN 0
    ELSE Head(schedules).amount + SumOfAmounts(Tail(schedules))

\* the calendar-month difference of the agreement's end and start
MonthsOfLease ==
    (getFullYear(args.endDate) * 12 + getMonth(args.endDate))
        - (getFullYear(args.startDate) * 12 + getMonth(args.startDate))

MonthsPerPayment ==
    CASE args.frequency = "MONTHLY"   -> 1
      [] args.frequency = "QUARTERLY" -> 3
      [] args.frequency = "ANNUALLY"  -> 12

\* ceil(MonthsOfLease / MonthsPerPayment)
PaymentsDue == (MonthsOfLease + MonthsPerPayment - 1) \div MonthsPerPayment

\* C11: for every agreement the Validator accepts (a 30-day lease inside one
\* calendar month included) and every frequency, the amounts of the returned
\* schedule add up to agreement.price, to the cent.
C11_ScheduleSumsToPrice ==
    ScheduleReturned => SumOfAmounts(ret.schedules) = args.price

\* C12: the returned schedule has at least one entry; when the number of
\* payments computes to 0 (start and end in one calendar month) it is one
\* payment of the full amount.
C12_AtLeastOnePayment ==
    ScheduleReturned =>
        /\ Len(ret.schedules) >= 1
        /\ PaymentsDue = 0 =>
              /\ Len(ret.schedules) = 1
              /\ ret.schedules[1].amount = args.price

\* C13: the schedule has ceil(months / interval) entries, the interval being
\* 1, 3 or 12 months: 5 months MONTHLY give 5 entries, 12 months QUARTERLY
\* give 4, and 1 month MONTHLY gives 1 entry carrying the full price.
C13_EntryCount ==
    ScheduleReturned =>
        /\ Len(ret.schedules) = PaymentsDue
        /\ (MonthsOfLease = 5 /\ args.frequency = "MONTHLY")
              => Len(ret.schedules) = 5
        /\ (MonthsOfLease = 12 /\ args.frequency = "QUARTERLY")
              => Len(ret.schedules) = 4
        /\ (MonthsOfLease = 1 /\ args.frequency = "MONTHLY")
              => /\ Len(ret.schedules) = 1
                 /\ ret.schedules[1].amount = args.price

C13_Witness ==
    /\ ScheduleReturned
    /\ MonthsOfLease = 12
    /\ args.frequency = "QUARTERLY"
    /\ Len(ret.schedules) = 4

\* the entries pushed so far
Pushed == IF frame.pc = "entry" THEN <<>> ELSE frame.schedules

\* the entries whose due date reads differently after the step
Moved == {j \in 1..Len(Pushed) : heap'[Pushed[j].dueDate] # heap[Pushed[j].dueDate]}

\* the due dates as generatePaymentSchedule computed them
DueDatesAsGenerated ==
    LET schedule == generatePaymentSchedule(args, args.frequency)
    IN [j \in 1..Len(schedule) |-> schedule[j].dueDate]

\* C14: every entry owns its due date.  No two entries, and no entry and the
\* agreement, refer to one Date object; pushing a later entry leaves the due
\* dates of the earlier ones as they were; changing the due date of one
\* entry changes no other entry's; agreement.startDate and agreement.endDate
\* are never changed.
C14_DueDatesIndependent ==
    /\ [](/\ heap[StartDateRef] = args.startDate
          /\ heap[EndDateRef] = args.endDate
          /\ \A j \in 1..Len(Pushed) :
                /\ Pushed[j].dueDate \notin {StartDateRef, EndDateRef}
                /\ \A k \in 1..Len(Pushed) :
                      k # j => Pushed[k].dueDate # Pushed[j].dueDate)
    /\ [][IF frame.pc = "returned" /\ frame'.pc = "postponed"
          THEN Cardinality(Moved) <= 1
          ELSE Moved = {}]_vars

C14_Witness ==
    /\ frame.pc = "postponed"
    /\ Len(ret.schedules) >= 3
    /\ \E k \in 1..Len(ret.schedules) :
          /\ heap[ret.schedules[k].dueDate] # DueDatesAsGenerated[k]
          /\ \A j \in 1..Len(ret.schedules) :
                j # k => heap[ret.schedules[j].dueDate] = DueDatesAsGenerated[j]

\* ------------------------------------------------------------------------
\* calculateLeasingCost run on its own
\* ------------------------------------------------------------------------

\* base prices in cents
BasePrices == {15, 115, 265, 99999, 100000}

\* an employee type the configuration has no discount for
UnknownType == "CONTRACTOR"

\* lease lengths in calendar months, from 2025-01-01
LeaseMonths == {5, 11, 12, 17}

\* the defaults, and LONG_TERM_DISCOUNT=0.75 with LONG_TERM_THRESHOLD=6
PricingConfigs ==
    {ServiceConfig,
     [ServiceConfig EXCEPT !.longTermDiscount = 75, !.longTermThreshold = 6]}

PricingArgs ==
    {[fn           |-> "calculateLeasingCost",
      price        |-> p,
      startDate    |-> MakeDate(2025, 0, 1, 0),
      endDate      |-> MakeDate(2025, k, 1, 0),
      employeeType |-> t] :
        p \in BasePrices,
        k \in LeaseMonths,
        t \in EmployeeTypes \cup {UnknownType}}

PricingInit ==
    /\ now = Today
    /\ config \in PricingConfigs
    /\ NoCallMade
    /\ args \in PricingArgs
    /\ heap = <<>>
    /\ frame = [pc |-> "entry"]
    /\ ret = NoReturn

CalculateLeasingCost ==
    /\ frame.pc = "entry"
    /\ frame' = [pc |-> "returned"]
    /\ ret' = [kind |-> "cost",
               cost |-> calculateLeasingCost(args.price, args.startDate,
                                             args.endDate, args.employeeType,
                                             config)]
    /\ UNCHANGED <<saga, args, heap>>

PricingNext == CalculateLeasingCost

PricingSpec == PricingInit /\ [][PricingNext]_vars

\* the multipliers as documented, in hundredths
LongTermMultiplier ==
    IF MonthsOfLease >= config.longTermThreshold
    THEN config.longTermDiscount ELSE 100

EmployeeMultiplier ==
    IF args.employeeType \in DOMAIN config.employeeDiscounts
    THEN config.employeeDiscounts[args.employeeType] ELSE 100

\* C15: the cost is basePrice x longTermMultiplier x employeeMultiplier
\* rounded half-up to the cent; the long-term multiplier applies exactly from
\* config.longTermThreshold months on, an unknown tier counts 1.0, and both
\* discounts multiply (1000 over 17 months for PREMIUM is 720).
C15_CostIsRoundedProduct ==
    ret.kind = "cost" =>
        /\ ret.cost = (args.price * LongTermMultiplier * EmployeeMultiplier
                          + 5000) \div 10000
        /\ (/\ args.price = 100000
            /\ MonthsOfLease = 17
            /\ args.employeeType = "PREMIUM"
            /\ config = ServiceConfig) => ret.cost = 72000

\* ------------------------------------------------------------------------
\* Validator.validateCreateAgreementRequest run on its own
\* ------------------------------------------------------------------------

\* start dates sent: today at midnight and late in the evening, yesterday
\* evening, a year from now, two weeks short of five years from now, and
\* strings that are no dates
ValidatorStartDates ==
    {toISOString(toDateString(Today)),
     toISOString(toDateString(Today) + 23),
     toISOString(toDateString(Today) - 1),
     toISOString(setFullYear(Today, getFullYear(Today) + 1)),
     toISOString(MakeDate(getFullYear(Today) + MaxLeaseYears, 5, 1, 0)),
     EmptyString,
     GarbageString}

\* end dates sent with a start date: around 30 days and around 5 years after
\* the start, the start itself, and strings that are no dates
ValidatorEndDates(startDate) ==
    IF ParseDate(startDate) = NaN
    THEN {toISOString(MakeDate(2025, 11, 1, 0)), GarbageString}
    ELSE LET s == ParseDate(startDate)
         IN {toISOString(s),
             toISOString(setDate(s, getDate(s) + MinLeaseDays - 1)),
             toISOString(setDate(s, getDate(s) + MinLeaseDays)),
             toISOString(setFullYear(s, getFullYear(s) + MaxLeaseYears)),
             toISOString(setFullYear(s, getFullYear(s) + MaxLeaseYears) + 24),
             EmptyString,
             GarbageString}

ValidatorPrices ==
    {Number(100000), Number(0), Number(2000000000), Number(1005), NotANumber}

ValidatorMetadata ==
    {NoMetadata, Metadata(20, TRUE), Metadata(MaxMetadataLength + 1, FALSE)}

\* every combination of well-formed and malformed fields
ValidatorRequests ==
    UNION {[employeeId       : {Emp1, "", "e1"},
            itemId           : {Item1, "", "item!"},
            companyId        : {Comp1, "", "comp!"},
            startDate        : {s},
            endDate          : ValidatorEndDates(s),
            price            : ValidatorPrices,
            currency         : {"USD", "JPY"},
            paymentFrequency : {"MONTHLY", "WEEKLY"},
            metadata         : ValidatorMetadata] : s \in ValidatorStartDates}

ValidatorInit ==
    /\ now = Today
    /\ config = ServiceConfig
    /\ NoCallMade
    /\ args \in ValidatorRequests
    /\ heap = <<>>
    /\ frame = [pc |-> "entry"]
    /\ ret = NoReturn

\* the call returns (NoError) or throws the ValidationError
ValidateCreateAgreementRequest ==
    /\ frame.pc = "entry"
    /\ frame' = [pc |-> "returned"]
    /\ ret' = [kind  |-> "validation",
               error |-> validateCreateAgreementRequest(args, now)]
    /\ UNCHANGED <<saga, args, heap>>

ValidatorNext == ValidateCreateAgreementRequest

ValidatorSpec == ValidatorInit /\ [][ValidatorNext]_vars

\* ------------------------------------------------------------------------
\* Properties of the Validator
\* ------------------------------------------------------------------------

Validated == ret.kind = "validation"

Accepted == ret.error = NoError

RejectedWith(field, code) == ret.error = ValidationError(field, code)

BothDatesParse ==
    /\ args.startDate.kind = "iso"
    /\ args.endDate.kind = "iso"

StartOfLease == ParseDate(args.startDate)

EndOfLease == ParseDate(args.endDate)

Midnight == DayNumber(now) * 24

\* the four date-range rules as the validator applies them, each on its own
RangeRule(code) ==
    CASE code = "PAST_DATE"          -> StartOfLease < Midnight
      [] code = "INVALID_RANGE"      -> EndOfLease <= StartOfLease
      [] code = "DURATION_EXCEEDED"  ->
            EndOfLease > setFullYear(now, getFullYear(now) + MaxLeaseYears)
      [] code = "DURATION_TOO_SHORT" ->
            EndOfLease < setDate(StartOfLease,
                                 getDate(StartOfLease) + MinLeaseDays)

RangeCheck(field, code) ==
    IF BothDatesParse /\ RangeRule(code)
    THEN ValidationError(field, code) ELSE NoError

\* the checks in the order the specification lists them
ChecksInOrder ==
    << validateRequired(args.employeeId, "employeeId"),
       validateRequired(args.itemId, "itemId"),
       validateRequired(args.companyId, "companyId"),
       validateAndParseDate(args.startDate, "startDate"),
       validateAndParseDate(args.endDate, "endDate"),
       RangeCheck("startDate", "PAST_DATE"),
       RangeCheck("endDate", "INVALID_RANGE"),
       RangeCheck("endDate", "DURATION_EXCEEDED"),
       RangeCheck("endDate", "DURATION_TOO_SHORT"),
       validatePrice(args.price),
       validateCurrency(args.currency),
       validatePaymentFrequency(args.paymentFrequency),
       validateIdFormat(args.employeeId, "employeeId"),
       validateIdFormat(args.itemId, "itemId"),
       validateIdFormat(args.companyId, "companyId"),
       validateMetadata(args.metadata) >>

\* C17: the Validator stops at the first failing check of the order required
\* ids, date parseability, date range (PAST_DATE, INVALID_RANGE,
\* DURATION_EXCEEDED, DURATION_TOO_SHORT), price, currency, payment
\* frequency, id format, metadata: the error it throws is that of the
\* earliest violated check, and it accepts only when no check is violated.
C17_FirstFailingCheckInOrder ==
    Validated => ret.error = FirstError(ChecksInOrder)

\* every field but the two dates is well-formed
OnlyDatesInQuestion ==
    /\ args.employeeId = Emp1
    /\ args.itemId = Item1
    /\ args.companyId = Comp1
    /\ args.price = Number(100000)
    /\ args.currency = "USD"
    /\ args.paymentFrequency = "MONTHLY"
    /\ args.metadata = NoMetadata
    /\ BothDatesParse

DaysOfLease == DayNumber(EndOfLease) - DayNumber(StartOfLease)

SameTimeOfDay == getHours(EndOfLease) = getHours(StartOfLease)

\* C18: with now fixed, an end date exactly 30 days after the start is
\* accepted and one 29 days after is rejected with DURATION_TOO_SHORT; a
\* start date of today is accepted at any time of day and a start date of
\* yesterday is rejected with PAST_DATE.
C18_DateBoundaries ==
    (Validated /\ OnlyDatesInQuestion) =>
        /\ (/\ DayNumber(StartOfLease) >= DayNumber(now)
            /\ DaysOfLease = 30
            /\ SameTimeOfDay) => Accepted
        /\ (/\ DayNumber(StartOfLease) >= DayNumber(now)
            /\ DaysOfLease = 29
            /\ SameTimeOfDay) => RejectedWith("endDate", "DURATION_TOO_SHORT")
        /\ (/\ DayNumber(StartOfLease) = DayNumber(now)
            /\ DaysOfLease = 30
            /\ SameTimeOfDay) => Accepted
        /\ DayNumber(StartOfLease) = DayNumber(now) - 1
              => RejectedWith("startDate", "PAST_DATE")

\* C19: for a start of today or later and an end after the start, the
\* validator raises DURATION_EXCEEDED exactly when the end is later than
\* start + 5 years; in particular a lease that starts a year from now and
\* lasts at most 5 years is not rejected with DURATION_EXCEEDED.
C19_MaxDurationFromStart ==
    (/\ Validated
     /\ OnlyDatesInQuestion
     /\ DayNumber(StartOfLease) >= DayNumber(now)
     /\ EndOfLease > StartOfLease) =>
        (RejectedWith("endDate", "DURATION_EXCEEDED")
            <=> EndOfLease > setFullYear(StartOfLease,
                                         getFullYear(StartOfLease)
                                             + MaxLeaseYears))

\* ------------------------------------------------------------------------
\* One call of processLeasingAgreement, with requests of every employee
\* type, lease length, payment frequency and kind of metadata
\* ------------------------------------------------------------------------

TheCall == 1

\* employee and company as the employee directory has them
EmployeeAndCompany == {<<Emp1, Comp1>>, <<Emp2, Comp1>>, <<Emp3, Comp2>>}

\* leases from 2025-07-01: 30 days, one month and twelve months
FactoryEndDates ==
    {IsoString(2025, 7, 31, 0), IsoString(2025, 8, 1, 0),
     IsoString(2026, 7, 1, 0)}

FactoryMetadata ==
    {NoMetadata, Metadata(20, FALSE), Metadata(20, TRUE),
     Metadata(MaxMetadataLength + 1, FALSE)}

FactoryRequests ==
    UNION {[employeeId       : {ec[1]},
            itemId           : {Item1},
            companyId        : {ec[2]},
            startDate        : {IsoString(2025, 7, 1, 0)},
            endDate          : FactoryEndDates,
            price            : {Number(100000), Number(1150)},
            currency         : {"USD"},
            paymentFrequency : validFrequencies,
            metadata         : FactoryMetadata] : ec \in EmployeeAndCompany}

SingleCallNext ==
    \/ \E q \in FactoryRequests : Call(TheCall, q)
    \/ \E resolves \in BOOLEAN : ValidateEmployee(TheCall, resolves)
    \/ \E resolves \in BOOLEAN : CheckAvailability(TheCall, resolves)
    \/ CheckPriceLimit(TheCall)
    \/ \E resolves \in BOOLEAN : CreateAgreementFromRequest(TheCall, resolves)
    \/ \E resolves \in BOOLEAN : ReserveItem(TheCall, resolves)
    \/ \E resolves \in BOOLEAN : SavePending(TheCall, resolves)
    \/ \E resolves \in BOOLEAN : CreateBillingRecord(TheCall, resolves)
    \/ \E resolves \in BOOLEAN : SendAgreementCreated(TheCall, resolves)
    \/ \E resolves \in BOOLEAN : SaveActive(TheCall, resolves)
    \/ \E resolves \in BOOLEAN : Rollback(TheCall, resolves)

SingleCallSpec == Init /\ [][SingleCallNext]_vars

\* the factory has built the agreement of call r
Built(r) == agreement[r] # NoAgreement

\* the discounted cost of the request of call r, in cents
DiscountedCost(r) ==
    calculateLeasingCost(request[r].price.mills \div 10,
                         ParseDate(request[r].startDate),
                         ParseDate(request[r].endDate),
                         employees[request[r].employeeId].type,
                         config)

\* the entries a step of call r adds to its log
Logged(r) == SubSeq(calls'[r], Len(calls[r]) + 1, Len(calls'[r]))

\* C16: the agreement built from a validated request is a DRAFT, its price is
\* the discounted cost for the employee's tier, and the amounts of its payment
\* schedule distribute that discounted price; building it calls
\* getEmployeeType and nothing else: inventory, repository, billing and
\* notification are as they were.
C16_FactoryBuildsDraft ==
    /\ [](\A r \in Calls : Built(r) =>
             /\ agreement[r].status = "DRAFT"
             /\ agreement[r].price = DiscountedCost(r)
             /\ SumOfAmounts(agreement[r].paymentSchedule) = DiscountedCost(r))
    /\ [][\A r \in Calls : (~Built(r) /\ Built(r)') =>
             /\ UNCHANGED collaborators
             /\ \A i \in 1..Len(Logged(r)) :
                   Logged(r)[i].op
                      \in {"getEmployeeType", "createAgreementFromRequest"}
             /\ \E i \in 1..Len(Logged(r)) :
                   Logged(r)[i].op = "getEmployeeType"]_vars

\* metadata the specification requires the Validator to refuse
OversizedMetadata(md) == md.present /\ md.length > 10000

MarkedMetadata(md) == md.present /\ md.length <= 10000 /\ md.marked

\* C20: a request whose metadata serializes to more than 10KB, or contains a
\* script-tag or 'javascript:' marker, is rejected by request validation
\* with SIZE_EXCEEDED or PROHIBITED_CONTENT: the call never gets to reserve,
\* save or bill, and once finished it has thrown that ValidationError.
C20_MetadataRejected ==
    \A r \in Calls :
        (OversizedMetadata(request[r].metadata)
            \/ MarkedMetadata(request[r].metadata)) =>
            /\ \A i \in DOMAIN calls[r] : calls[r][i].op \notin SideEffectOps
            /\ pc[r] = "done"
            /\ result[r].kind = "thrown"
            /\ result[r].error =
                  ValidationError("metadata",
                                  IF OversizedMetadata(request[r].metadata)
                                  THEN "SIZE_EXCEEDED"
                                  ELSE "PROHIBITED_CONTENT")

\* ------------------------------------------------------------------------
\* Concurrent calls, each for an item of its own
\* ------------------------------------------------------------------------

\* call r asks for the r-th item of the inventory
ItemOfCall == <<Item1, Item2, Item3>>

RequestOfCall(r) == [BaseRequest EXCEPT !.itemId = ItemOfCall[r]]

DistinctItemsNext ==
    \/ \E r \in Calls : Call(r, RequestOfCall(r))
    \/ \E r \in Calls, resolves \in BOOLEAN : ValidateEmployee(r, resolves)
    \/ \E r \in Calls, resolves \in BOOLEAN : CheckAvailability(r, resolves)
    \/ \E r \in Calls : CheckPriceLimit(r)
    \/ \E r \in Calls, resolves \in BOOLEAN :
          CreateAgreementFromRequest(r, resolves)
    \/ \E r \in Calls, resolves \in BOOLEAN : ReserveItem(r, resolves)
    \/ \E r \in Calls, resolves \in BOOLEAN : SavePending(r, resolves)
    \/ \E r \in Calls, resolves \in BOOLEAN : CreateBillingRecord(r, resolves)
    \/ \E r \in Calls, resolves \in BOOLEAN : SendAgreementCreated(r, resolves)
    \/ \E r \in Calls, resolves \in BOOLEAN : SaveActive(r, resolves)
    \/ \E r \in Calls, resolves \in BOOLEAN : Rollback(r, resolves)

DistinctItemsSpec == Init /\ [][DistinctItemsNext]_vars

\* the steps of a log whose rejection ends the call
Aborting(log) ==
    {i \in DOMAIN log :
        /\ ~log[i].resolved
        /\ log[i].op \notin {"sendAgreementCreated", "releaseItem"}}

\* what call r returns or throws when it runs with no other call around and
\* its collaborators resolve and reject as its log records
ResultAlone(r) ==
    IF Aborting(calls[r]) = {}
    THEN [kind  |-> "returned",
          error |-> NoError,
          value |-> [BuildAgreement(r, request[r],
                                    employees[request[r].employeeId].type,
                                    config) EXCEPT !.status = "ACTIVE"]]
    ELSE [kind  |-> "thrown",
          error |-> ErrorOf(calls[r][CHOOSE i \in Aborting(calls[r]) :
                                \A j \in Aborting(calls[r]) : i <= j]),
          value |-> NoAgreement]

\* what the service keeps for call r
StateOfCall(r) ==
    <<pc[r], request[r], agreement[r], savedAgreement[r], operations[r],
      caught[r], result[r], calls[r]>>

\* the call that takes the step
Stepping(r) == calls'[r] # calls[r]

\* C21: concurrent calls share nothing inside the service.  Each call has its
\* own compensation list, holding its own item only; for requests on
\* different items a call's step leaves every other call's state alone, its
\* rollback releases no item but its own, the inventory answers each call as
\* if it ran alone, and each finished call's result is the result of running
\* alone.
C21_CallsAreIndependent ==
    /\ [](\A r \in Calls :
             /\ \A i \in DOMAIN operations[r] :
                   operations[r][i] = request[r].itemId
             /\ \A i \in DOMAIN calls[r] :
                   /\ calls[r][i].op \in {"reserveItem", "releaseItem"}
                         => calls[r][i].item = request[r].itemId
                   /\ (/\ calls[r][i].op \in {"checkAvailability", "reserveItem"}
                       /\ calls[r][i].resolved) => calls[r][i].value
             /\ pc[r] = "done" => result[r] = ResultAlone(r))
    /\ [][\A r \in Calls : Stepping(r) =>
             /\ \A s \in Calls \ {r} : StateOfCall(s)' = StateOfCall(s)
             /\ reservedItems \ {request'[r].itemId}
                   = reservedItems' \ {request'[r].itemId}]_vars

\* one call has failed and released its item, another has returned its
\* ACTIVE agreement and its item is still reserved
C21_Witness ==
    \E r \in Calls : \E s \in Calls \ {r} :
        /\ Thrown(r)
        /\ \E i \in Indices(calls[r], "releaseItem") : calls[r][i].resolved
        /\ Returned(s)
        /\ request[s].itemId \in reservedItems
        /\ request[r].itemId \notin reservedItems

\* ------------------------------------------------------------------------
\* Amounts and due dates of the schedule entries
\* ------------------------------------------------------------------------

\* totalAmount / n rounded to the nearest cent, a half rounding up
BaseAmount(totalAmount, n) ==
    CHOOSE b \in 0..totalAmount :
        /\ 2 * b * n - 2 * totalAmount <= n
        /\ 2 * totalAmount - 2 * b * n < n

\* C22: in a schedule of n entries every entry except the last has amount
\* baseAmount = round2(totalAmount / n) and the last has
\* totalAmount - baseAmount * (n - 1); price 100 over 3 payments gives
\* 33.33, 33.33, 33.34.
C22_EvenAmountsLastTakesRest ==
    ScheduleReturned =>
        LET n == Len(ret.schedules)
        IN /\ \A j \in 1..n :
                 ret.schedules[j].amount =
                     IF j < n THEN BaseAmount(args.price, n)
                     ELSE args.price - BaseAmount(args.price, n) * (n - 1)
           /\ (args.price = 10000 /\ n = 3) =>
                 /\ ret.schedules[1].amount = 3333
                 /\ ret.schedules[2].amount = 3333
                 /\ ret.schedules[3].amount = 3334

\* 999.99 in two payments: 500.00 (the half cent rounded up) and 499.99
C22_Witness ==
    /\ ScheduleReturned
    /\ args.price = 99999
    /\ Len(ret.schedules) = 2
    /\ ret.schedules[1].amount = 50000
    /\ ret.schedules[2].amount = 49999

\* the calendar month of a date, counted from year 0
MonthIndex(t) == getFullYear(t) * 12 + getMonth(t)

\* the date k calendar months after t: the same day of the month and time
\* of day k months later, the last day of that month where it is shorter
MonthsAfter(t, k) ==
    LET y == (MonthIndex(t) + k) \div 12
        m == (MonthIndex(t) + k) % 12
        d == IF getDate(t) <= DaysInMonth(y, m)
             THEN getDate(t) ELSE DaysInMonth(y, m)
    IN MakeDate(y, m, d, getHours(t))

\* the due date of entry j when the schedule has just been returned
DueDate(j) == heap[ret.schedules[j].dueDate]

\* C23: the first entry is due on the start date and entry i (0-based) is
\* due exactly i * intervalMonths calendar months after the start date, so
\* due dates increase strictly and consecutive ones lie exactly
\* intervalMonths months apart, whatever the start day of the month (29th to
\* 31st included); entry n has id '<agreementId>-payment-<n>', status PENDING
\* and attemptCount 0.
C23_DueDatesMonthsApart ==
    frame.pc = "returned" =>
        \A j \in 1..Len(ret.schedules) :
            /\ DueDate(j) = MonthsAfter(args.startDate,
                                        (j - 1) * MonthsPerPayment)
            /\ j > 1 =>
                  /\ DueDate(j) > DueDate(j - 1)
                  /\ MonthIndex(DueDate(j)) - MonthIndex(DueDate(j - 1))
                        = MonthsPerPayment
            /\ ret.schedules[j].id = <<args.id, j>>
            /\ ret.schedules[j].status = "PENDING"
            /\ ret.schedules[j].attemptCount = 0

\* ------------------------------------------------------------------------
\* validatePrice run on its own
\* ------------------------------------------------------------------------

\* prices around zero, of a few cents, and around the limit, in thousandths;
\* and the values that are not finite numbers
PriceValues ==
    {Number(mills) : mills \in -20..130}
        \cup {Number(ValidatorMaxPriceMills + d) : d \in -20..20}
        \cup {NotANumber, PositiveInfinity, NegativeInfinity, StringPrice}

PriceInit ==
    /\ now = Today
    /\ config = ServiceConfig
    /\ NoCallMade
    /\ args \in [fn : {"validatePrice"}, price : PriceValues]
    /\ heap = <<>>
    /\ frame = [pc |-> "entry"]
    /\ ret = NoReturn

\* the call returns (NoError) or throws the ValidationError
ValidatePrice ==
    /\ frame.pc = "entry"
    /\ frame' = [pc |-> "returned"]
    /\ ret' = [kind |-> "validation", error |-> validatePrice(args.price)]
    /\ UNCHANGED <<saga, args, heap>>

PriceNext == ValidatePrice

PriceSpec == PriceInit /\ [][PriceNext]_vars

FiniteNumber(price) == price.kind = "number"

\* the outcome the price rules prescribe
PriceRule(price) ==
    IF ~FiniteNumber(price) THEN ValidationError("price", "INVALID_TYPE")
    ELSE IF price.mills <= 0 THEN ValidationError("price", "INVALID_VALUE")
    ELSE IF price.mills > 1000000 * 1000
    THEN ValidationError("price", "EXCEEDS_LIMIT")
    ELSE IF price.mills % 10 # 0
    THEN ValidationError("price", "INVALID_PRECISION")
    ELSE NoError

\* C24: a price that is not a number or not finite (NaN, +Infinity,
\* -Infinity) is rejected with INVALID_TYPE, a price <= 0 with INVALID_VALUE,
\* a price above 1,000,000 with EXCEEDS_LIMIT, a price with more than two
\* fractional digits with INVALID_PRECISION; exactly 1,000,000 and every
\* positive price of at most two decimals up to it are accepted.
C24_PriceRules ==
    ret.kind = "validation" =>
        /\ ret.error = PriceRule(args.price)
        /\ args.price = Number(1000000 * 1000) => ret.error = NoError

\* ------------------------------------------------------------------------
\* The result of reserveItem, and two calls for one item
\* ------------------------------------------------------------------------

\* reserveItem resolved to false in call r: the item was not reserved
ReservationRefused(r) ==
    \E i \in Indices(calls[r], "reserveItem") :
        calls[r][i].resolved /\ ~calls[r][i].value

\* C25: the saga honours the boolean of reserveItem.  It registers the
\* compensator and goes on to save, bill and activate only when reserveItem
\* returned true; when it resolves to false no agreement of the call is
\* persisted or activated.
C25_ReserveResultHonoured ==
    \A r \in Calls :
        /\ operations[r] # <<>> => Succeeded(calls[r], "reserveItem", "")
        /\ ReservationRefused(r) =>
              /\ r \notin DOMAIN agreements
              /\ \A b \in BagToSet(billingRecords) : b.agreementId # r
              /\ \A i \in DOMAIN calls[r] :
                    calls[r][i].op \notin {"save", "createBillingRecord"}
              /\ ~Returned(r)

\* call r returned an ACTIVE agreement for the item
ActiveFor(r, itemId) ==
    /\ Returned(r)
    /\ result[r].value.status = "ACTIVE"
    /\ result[r].value.itemId = itemId

\* C26: the inventory refusing to reserve a reserved item, every
\* interleaving of two concurrent calls for one item ends with at most one
\* of them returning an ACTIVE agreement for it, also when both passed
\* checkAvailability before either reserved.
C26_OneActivePerItem ==
    \A r \in Calls : \A s \in Calls \ {r} :
        \A itemId \in availableItems :
            ~(ActiveFor(r, itemId) /\ ActiveFor(s, itemId))

\* call r holds the reservation of its item: its reserveItem returned true
\* and it has not called releaseItem
HoldsReservation(r) ==
    /\ Succeeded(calls[r], "reserveItem", "")
    /\ Indices(calls[r], "releaseItem") = {}

\* C27: the rollback of a call releases only a reservation the call itself
\* obtained.  A failing call never calls releaseItem for an item another
\* call has reserved, so the item of an ACTIVE or in-progress agreement
\* does not become available again because a different call failed.
C27_ReleasesOwnReservationOnly ==
    /\ [](\A r \in Calls :
             /\ Indices(calls[r], "releaseItem") # {}
                   => Succeeded(calls[r], "reserveItem", "")
             /\ HoldsReservation(r) => request[r].itemId \in reservedItems)
    /\ [][\A r \in Calls : Stepping(r) =>
             \A itemId \in reservedItems \ reservedItems' :
                 /\ itemId = request[r].itemId
                 /\ Succeeded(calls[r], "reserveItem", "")]_vars

\* ------------------------------------------------------------------------
\* The 'agreement created' notification
\* ------------------------------------------------------------------------

\* C29: sendAgreementCreated is invoked at most once per call and only for
\* an agreement that ends up ACTIVE: no call that throws has invoked it.
C29_NotifiedOnlyWhenActive ==
    \A r \in Calls :
        /\ Cardinality(Indices(calls[r], "sendAgreementCreated")) <= 1
        /\ Thrown(r) => Indices(calls[r], "sendAgreementCreated") = {}

\* ------------------------------------------------------------------------
\* Sign of the installments
\* ------------------------------------------------------------------------

\* C28: for every price the Validator accepts (positive, whole cents, a few
\* cents included) and every number of payments, every installment of the
\* schedule, the last one included, is at least 0.
C28_NoNegativeInstallment ==
    ScheduleReturned =>
        \A j \in 1..Len(ret.schedules) : ret.schedules[j].amount >= 0

\* ------------------------------------------------------------------------
\* Termination
\* ------------------------------------------------------------------------

\* the continuation of call r after the await it is suspended at
Resume(r) ==
    \/ \E resolves \in BOOLEAN : ValidateEmployee(r, resolves)
    \/ \E resolves \in BOOLEAN : CheckAvailability(r, resolves)
    \/ CheckPriceLimit(r)
    \/ \E resolves \in BOOLEAN : CreateAgreementFromRequest(r, resolves)
    \/ \E resolves \in BOOLEAN : ReserveItem(r, resolves)
    \/ \E resolves \in BOOLEAN : SavePending(r, resolves)
    \/ \E resolves \in BOOLEAN : CreateBillingRecord(r, resolves)
    \/ \E resolves \in BOOLEAN : SendAgreementCreated(r, resolves)
    \/ \E resolves \in BOOLEAN : SaveActive(r, resolves)
    \/ \E resolves \in BOOLEAN : Rollback(r, resolves)

\* every collaborator call settles, and the event loop then runs the
\* continuation of the call that awaits it
FairSpec == Spec /\ \A r \in Calls : WF_vars(Resume(r))

\* C30: provided every collaborator call eventually resolves or rejects,
\* every call of processLeasingAgreement eventually returns or throws.
\* Nothing is retried: no collaborator operation is invoked twice by one
\* call (save once per status), the rollback loop runs the registered
\* compensator once, and a rejecting compensator does not keep the call
\* from finishing.
C30_EveryCallTerminates ==
    /\ [](\A r \in Calls :
             /\ \A i \in DOMAIN calls[r] : \A j \in DOMAIN calls[r] :
                   (/\ i # j
                    /\ calls[r][i].op = calls[r][j].op)
                      => calls[r][i].status # calls[r][j].status
             /\ Cardinality(Indices(calls[r], "releaseItem")) <= 1)
    /\ \A r \in Calls : (pc[r] # "idle") ~> (pc[r] = "done")

\* a call has thrown after its compensator rejected
C30_Witness ==
    \E r \in Calls :
        /\ Thrown(r)
        /\ \E i \in Indices(calls[r], "releaseItem") : ~calls[r][i].resolved

====
